---- MODULE Spec2Model ----
(***************************************************************************)
(* A model of perlin2d (src/src/lib.rs): the PerlinNoise2D value object,   *)
(* its accessors, and the sampling pipeline                                 *)
(*     noise -> interpolate -> get_value -> total -> get_noise.             *)
(*                                                                          *)
(* i32 values are integers in I32_MIN..I32_MAX.  TLC's integers are         *)
(* themselves 32 bits wide, so every i32 operation is computed on bytes     *)
(* and never forms an intermediate outside the i32 range.  An i32           *)
(* operation takes and returns records [panic, v]: v is the                 *)
(* two's-complement value, panic says that the build has aborted by then.   *)
(* Rust's +, - and * on i32 panic on overflow when the build has overflow   *)
(* checks (the default of the dev/test profiles) and wrap otherwise (the    *)
(* default of the release profile); the parameter `checks` is that build    *)
(* choice.                                                                  *)
(*                                                                          *)
(* f64 values are records [k, neg, m, e]: k = "nan", "inf" or "fin";        *)
(* a finite value is (-1)^neg * m * 2^e with m a natural number held as a   *)
(* little-endian sequence of base-2^15 limbs, m odd (or m = 0, e = 0).      *)
(* Every operation computes the exact result and rounds it once, ties to    *)
(* even, as IEEE-754 binary64 does: to 53 significant bits, or to a         *)
(* multiple of 2^-1074 where that is coarser (subnormal results, and zero   *)
(* on underflow); results of magnitude >= 2^1024 become infinite.  The      *)
(* sign and payload of a NaN are not modelled.                              *)
(***************************************************************************)
EXTENDS Integers, Sequences, FiniteSets, TLC

VARIABLES
  overflow_checks,  \* whether the build has overflow checks (dev/test) or not (release)
  obj,              \* the PerlinNoise2D values, by object
  shadow,           \* per object and field, the value last passed to new or its setter
  arg,              \* the arguments of the call in hand
  res,              \* what the last call returned
  log,              \* the get_noise calls made so far, in order
  ops,              \* the number of calls made on the objects so far
  pc                \* "ready", "done" (the call returned) or "aborted" (it panicked)

vars == <<overflow_checks, obj, shadow, arg, res, log, ops, pc>>

(***************************************************************************)
(* i32                                                                      *)
(***************************************************************************)
I32_MAX == 2147483647
I32_MIN == -I32_MAX - 1

Abs(a) == IF a < 0 THEN -a ELSE a

Pow2(k) ==
  <<1, 2, 4, 8, 16, 32, 64, 128, 256, 512, 1024, 2048, 4096, 8192, 16384,
    32768, 65536, 131072, 262144, 524288, 1048576, 2097152, 4194304,
    8388608, 16777216, 33554432, 67108864, 134217728, 268435456,
    536870912, 1073741824>>[k + 1]

\* The four bytes of an i32, least significant first (two's complement).
Bytes(a) ==
  <<a % 256, (a \div 256) % 256, (a \div 65536) % 256,
    (a \div 16777216) % 256>>

FromBytes(b) ==
  (IF b[4] >= 128 THEN b[4] - 256 ELSE b[4]) * 16777216
    + b[3] * 65536 + b[2] * 256 + b[1]

\* The low byte of (a sum of byte columns) v and what it carries over.
Low(v) == v % 256
Carry(v) == v \div 256

\* x + y modulo 2^32, on bytes.
AddBytes(x, y) ==
  LET s1 == x[1] + y[1]
      s2 == x[2] + y[2] + Carry(s1)
      s3 == x[3] + y[3] + Carry(s2)
      s4 == x[4] + y[4] + Carry(s3)
  IN  <<Low(s1), Low(s2), Low(s3), Low(s4)>>

\* x - y modulo 2^32, on bytes.
SubBytes(x, y) ==
  LET d1 == x[1] - y[1]
      d2 == x[2] - y[2] + Carry(d1)
      d3 == x[3] - y[3] + Carry(d2)
      d4 == x[4] - y[4] + Carry(d3)
  IN  <<Low(d1), Low(d2), Low(d3), Low(d4)>>

\* x * y modulo 2^32: schoolbook on bytes.
MulBytes(x, y) ==
  LET c1 == x[1] * y[1]
      c2 == x[1] * y[2] + x[2] * y[1] + Carry(c1)
      c3 == x[1] * y[3] + x[2] * y[2] + x[3] * y[1] + Carry(c2)
      c4 == x[1] * y[4] + x[2] * y[3] + x[3] * y[2] + x[4] * y[1] + Carry(c3)
  IN  <<Low(c1), Low(c2), Low(c3), Low(c4)>>

\* i32::wrapping_add, wrapping_sub and wrapping_mul.
wrapping_add(a, b) == FromBytes(AddBytes(Bytes(a), Bytes(b)))
wrapping_sub(a, b) == FromBytes(SubBytes(Bytes(a), Bytes(b)))
wrapping_mul(a, b) == FromBytes(MulBytes(Bytes(a), Bytes(b)))

\* Whether the mathematical a + b lies outside the i32 range.
AddOverflows(a, b) ==
  \/ b > 0 /\ a > I32_MAX - b
  \/ b < 0 /\ a < I32_MIN - b

\* Whether the mathematical a - b lies outside the i32 range.
SubOverflows(a, b) ==
  \/ b > 0 /\ a < I32_MIN + b
  \/ b < 0 /\ a > I32_MAX + b

\* Whether the mathematical a * b lies outside the i32 range.
MulOverflows(a, b) ==
  IF a = 0 \/ b = 0 \/ a = 1 \/ b = 1 THEN FALSE
  ELSE IF a = -1 THEN b = I32_MIN
  ELSE IF b = -1 THEN a = I32_MIN
  ELSE IF a = I32_MIN \/ b = I32_MIN THEN TRUE
  ELSE IF (a < 0) = (b < 0)
       THEN Abs(a) > I32_MAX \div Abs(b)
       ELSE ~ (\/ Abs(a) <= I32_MAX \div Abs(b)
               \/ Abs(a) = I32_MAX \div Abs(b) + 1
                    /\ I32_MAX % Abs(b) = Abs(b) - 1)

\* An i32 that no aborted operation produced.
I(v) == [panic |-> FALSE, v |-> v]

\* Rust's `a + b`, `a - b` and `a * b` on i32.
add_i32(a, b, checks) ==
  [panic |-> a.panic \/ b.panic \/ (checks /\ AddOverflows(a.v, b.v)),
   v |-> wrapping_add(a.v, b.v)]

sub_i32(a, b, checks) ==
  [panic |-> a.panic \/ b.panic \/ (checks /\ SubOverflows(a.v, b.v)),
   v |-> wrapping_sub(a.v, b.v)]

mul_i32(a, b, checks) ==
  [panic |-> a.panic \/ b.panic \/ (checks /\ MulOverflows(a.v, b.v)),
   v |-> wrapping_mul(a.v, b.v)]

\* Bitwise operations on bytes, bit by bit.
BitOf(a, i) == (a \div Pow2(i)) % 2

XorByte(a, b) ==
  LET X(i) == IF BitOf(a, i) = BitOf(b, i) THEN 0 ELSE Pow2(i)
  IN  ((X(0) + X(1)) + (X(2) + X(3))) + ((X(4) + X(5)) + (X(6) + X(7)))

AndByte(a, b) ==
  LET X(i) == IF BitOf(a, i) = 1 /\ BitOf(b, i) = 1 THEN Pow2(i) ELSE 0
  IN  ((X(0) + X(1)) + (X(2) + X(3))) + ((X(4) + X(5)) + (X(6) + X(7)))

XorBytes(x, y) == [i \in 1..4 |-> XorByte(x[i], y[i])]
AndBytes(x, y) == [i \in 1..4 |-> AndByte(x[i], y[i])]

\* Rust's `a ^ b` and `a & b` on i32.
xor_i32(a, b) ==
  [panic |-> a.panic \/ b.panic,
   v |-> FromBytes(XorBytes(Bytes(a.v), Bytes(b.v)))]

and_i32(a, b) ==
  [panic |-> a.panic \/ b.panic,
   v |-> FromBytes(AndBytes(Bytes(a.v), Bytes(b.v)))]

\* Rust's `a << k` on i32 for 0 <= k < 31: the bits shifted out are dropped,
\* with or without overflow checks (only k >= 32 is an overflow).
shl_i32(a, k) == [panic |-> a.panic, v |-> wrapping_mul(a.v, Pow2(k))]

(***************************************************************************)
(* Natural numbers of any size: little-endian sequences of limbs in        *)
(* 0..LIMB-1 without leading (high) zero limbs; <<>> is 0.  They carry     *)
(* the significands of f64 values.                                         *)
(***************************************************************************)
\* The widest limbs whose products fit the 31 value bits of an integer.
LIMB_BITS == 31 \div 2
LIMB == Pow2(LIMB_BITS)

\* Limb i of s, 0 beyond its length.
NLimb(s, i) == IF i >= 1 /\ i <= Len(s) THEN s[i] ELSE 0

\* s without its leading zero limbs.
NNorm(s) ==
  IF Len(s) = 0 THEN <<>>
  ELSE IF s[Len(s)] # 0 THEN SubSeq(s, 1, Len(s))
  ELSE LET nz == {i \in 1..Len(s) : s[i] # 0}
       IN  IF nz = {} THEN <<>>
           ELSE SubSeq(s, 1, CHOOSE i \in nz : \A j \in nz : j <= i)

\* The limbs of n, for 0 <= n < 2^31.
NFromInt(n) ==
  NNorm(<<n % LIMB, (n \div LIMB) % LIMB, n \div (LIMB * LIMB)>>)

\* The value of s, for s < 2^31.
NToInt(s) == NLimb(s, 1) + LIMB * NLimb(s, 2) + LIMB * LIMB * NLimb(s, 3)

\* a + b + c for a carry c of 0 or 1.  The carry into limb i: some lower
\* limb sum overflows (or c enters) and every limb sum between is LIMB - 1.
NAddC(a, b, c) ==
  IF a = <<>> /\ c = 0 THEN b
  ELSE IF b = <<>> /\ c = 0 THEN a
  ELSE
  LET n == IF Len(a) > Len(b) THEN Len(a) ELSE Len(b)
      s == [i \in 1..(n + 1) |-> NLimb(a, i) + NLimb(b, i)]
      carry(i) ==
        IF \/ \E j \in 1..(i - 1) :
                s[j] >= LIMB /\ \A k \in (j + 1)..(i - 1) : s[k] = LIMB - 1
           \/ c = 1 /\ \A k \in 1..(i - 1) : s[k] = LIMB - 1
        THEN 1 ELSE 0
  IN  NNorm([i \in 1..(n + 1) |-> (s[i] + carry(i)) % LIMB])

NAdd(a, b) == NAddC(a, b, 0)

\* a - b for a >= b.  The borrow into limb i: some lower limb difference is
\* negative and every limb difference between is 0.
NSub(a, b) ==
  IF b = <<>> THEN a
  ELSE
  LET d == [i \in 1..Len(a) |-> a[i] - NLimb(b, i)]
      borrow(i) ==
        IF \E j \in 1..(i - 1) : d[j] < 0 /\ \A k \in (j + 1)..(i - 1) : d[k] = 0
        THEN 1 ELSE 0
  IN  NNorm([i \in 1..Len(a) |-> (d[i] - borrow(i)) % LIMB])

\* -1, 0 or 1 as a < b, a = b or a > b.
NCmp(a, b) ==
  IF Len(a) < Len(b) THEN -1
  ELSE IF Len(a) > Len(b) THEN 1
  ELSE LET df == {i \in 1..Len(a) : a[i] # b[i]}
           top == CHOOSE i \in df : \A j \in df : j <= i
       IN  IF df = {} THEN 0 ELSE IF a[top] < b[top] THEN -1 ELSE 1

\* a * d for 0 <= d < LIMB: the low halves of the limb products plus their
\* high halves one limb up.
NMulSmall(a, d) ==
  NAdd([i \in 1..Len(a) |-> (a[i] * d) % LIMB],
       <<0>> \o [i \in 1..Len(a) |-> (a[i] * d) \div LIMB])

NShiftLimb(s) == IF s = <<>> THEN s ELSE <<0>> \o s

\* a * b for a of at most 4 limbs (a significand has 53 bits), by columns:
\* column k sums the low halves of the limb products a[i] * b[k - i + 1]
\* and the high halves of the products of column k - 1.
NMul(a, b) ==
  LET lo(i, k) == (NLimb(a, i) * NLimb(b, k - i + 1)) % LIMB
      hi(i, k) == (NLimb(a, i) * NLimb(b, k - i)) \div LIMB
      col == [k \in 1..(Len(a) + Len(b)) |->
                ((lo(1, k) + lo(2, k)) + (lo(3, k) + lo(4, k)))
                  + ((hi(1, k) + hi(2, k)) + (hi(3, k) + hi(4, k)))]
  IN  IF a = <<>> \/ b = <<>> THEN <<>>
      ELSE NAdd([k \in 1..(Len(a) + Len(b)) |-> col[k] % LIMB],
                <<0>> \o [k \in 1..(Len(a) + Len(b)) |-> col[k] \div LIMB])

\* a * 2^k.
NShl(a, k) ==
  LET p == Pow2(k % LIMB_BITS)
  IN  IF a = <<>> THEN a
      ELSE [i \in 1..(k \div LIMB_BITS) |-> 0]
             \o NNorm([i \in 1..(Len(a) + 1) |->
                         ((NLimb(a, i) * p) % LIMB) + ((NLimb(a, i - 1) * p) \div LIMB)])

\* floor(a / 2^k).
NShr(a, k) ==
  LET drop == k \div LIMB_BITS
      d == Pow2(k % LIMB_BITS)
  IN  IF drop >= Len(a) THEN <<>>
      ELSE NNorm([i \in 1..(Len(a) - drop) |->
                    (a[i + drop] \div d) + (NLimb(a, i + drop + 1) % d) * (LIMB \div d)])

\* Bit i of a, counted from 0 at the low end.
NBit(a, i) == (NLimb(a, i \div LIMB_BITS + 1) \div Pow2(i % LIMB_BITS)) % 2

\* Whether the k low bits of a are all 0.
NLowZero(a, k) ==
  /\ \A i \in 1..(k \div LIMB_BITS) : NLimb(a, i) = 0
  /\ NLimb(a, k \div LIMB_BITS + 1) % Pow2(k % LIMB_BITS) = 0

\* The number of bits of a limb n.
BitLenSmall(n) ==
  CHOOSE k \in 0..LIMB_BITS : Pow2(k) > n /\ (k = 0 \/ Pow2(k - 1) <= n)

NBitLen(a) ==
  IF a = <<>> THEN 0 ELSE LIMB_BITS * (Len(a) - 1) + BitLenSmall(a[Len(a)])

\* The number of trailing zero bits of a limb n # 0.
TzSmall(n) == CHOOSE k \in 0..(LIMB_BITS - 1) : n % Pow2(k + 1) = Pow2(k)

\* The number of trailing zero bits of a # 0.
NTz(a) ==
  LET i == CHOOSE i \in 1..Len(a) : a[i] # 0 /\ \A j \in 1..(i - 1) : a[j] = 0
  IN  LIMB_BITS * (i - 1) + TzSmall(a[i])

\* Long division, a limb of the quotient at a time (Knuth's algorithm D).
\* d has its top bit set (d[Len(d)] >= LIMB / 2) and r2 < d * LIMB.
\* The limb q of the quotient, and the remainder it leaves.
NDivTake(r2, d, q) == [q |-> q, r |-> NSub(r2, NMulSmall(d, q))]

\* The limb floor(r2 / d) from its estimate q0, which is at most 2 too large.
NDivCorrect(r2, d, q0) ==
  IF q0 = 0 THEN [q |-> 0, r |-> r2]
  ELSE NDivTake(r2, d,
                IF NCmp(NMulSmall(d, q0), r2) <= 0 THEN q0
                ELSE IF NCmp(NMulSmall(d, q0 - 1), r2) <= 0 THEN q0 - 1
                ELSE q0 - 2)

\* The estimate: the top two limbs of r2 by the top limb of d.
NDivEstimate(r2, d) ==
  LET n == Len(d)
      top == (IF Len(r2) > n THEN r2[n + 1] * LIMB ELSE 0)
               + (IF Len(r2) >= n THEN r2[n] ELSE 0)
      est == top \div d[n]
  IN  IF est > LIMB - 1 THEN LIMB - 1 ELSE est

NDivStep(r2, d) == NDivCorrect(r2, d, NDivEstimate(r2, d))

\* For r < d: the next limb floor(r * LIMB / d) and the remainder.
NDivDigit(r, d) == NDivStep(NShiftLimb(r), d)

\* The first `limbs` limbs of the quotient of r * LIMB^limbs by d, for
\* r < d: the digits found so far, the most significant first, and one more
\* from the remainder the last one left.
NDivMore(d, p) == p \o <<NDivDigit(p[Len(p)].r, d)>>

RECURSIVE NDivDigits(_, _, _)
NDivDigits(r, d, limbs) ==
  IF limbs = 1 THEN <<NDivDigit(r, d)>>
  ELSE NDivMore(d, NDivDigits(r, d, limbs - 1))

\* The digits p as a natural number, and the remainder left.
NDivOut(p) ==
  [q |-> [i \in 1..Len(p) |-> p[Len(p) + 1 - i].q], r |-> p[Len(p)].r]

\* floor(r * LIMB^limbs / d), as exactly `limbs` limbs, and the remainder
\* left, for r < d.
NDivLimbs(r, d, limbs) ==
  IF r = <<>> THEN [q |-> [i \in 1..limbs |-> 0], r |-> r]
  ELSE NDivOut(NDivDigits(r, d, limbs))

(***************************************************************************)
(* f64                                                                      *)
(***************************************************************************)
NaN == [k |-> "nan", neg |-> FALSE, m |-> <<>>, e |-> 0]
Inf(neg) == [k |-> "inf", neg |-> neg, m |-> <<>>, e |-> 0]
Zero(neg) == [k |-> "fin", neg |-> neg, m |-> <<>>, e |-> 0]

\* The f64 that is n * 2^e, for an odd n, 0 < n < LIMB (how the literals of
\* the source are written).
Lit(n, e) == [k |-> "fin", neg |-> FALSE, m |-> <<n>>, e |-> e]

IsNaN(a) == a.k = "nan"
IsInf(a) == a.k = "inf"
IsFinite(a) == a.k = "fin"
IsZero(a) == a.k = "fin" /\ a.m = <<>>
IsNumber(a) == a.k = "fin" /\ a.m # <<>>

\* The exponent of the smallest positive f64, 2^-1074.
MinExp == -(1022 + 52)

\* Whether dropping the s low bits of M rounds up: the first dropped bit is
\* set and either a lower one is too or the last kept bit is (a tie, to even).
RoundUp(M, s) ==
  /\ NBit(M, s - 1) = 1
  /\ ~NLowZero(M, s - 1) \/ NBit(M, s) = 1

\* M without its s low bits, rounded to nearest, ties to even.
NRoundShr(M, s) == NAddC(NShr(M, s), <<>>, IF RoundUp(M, s) THEN 1 ELSE 0)

\* (-1)^neg * r * 2^MinExp for r < 2^53: a subnormal, the smallest normal
\* number, or a zero when everything was rounded away.
PackMin(neg, r, tz) ==
  IF r = <<>> THEN Zero(neg)
  ELSE [k |-> "fin", neg |-> neg, m |-> NShr(r, tz), e |-> MinExp + tz]

\* (-1)^neg * r * 2^MinExp for r < 2^53, r the significand after the bits
\* below 2^MinExp were rounded away.
Underflow(neg, r) == PackMin(neg, r, IF r = <<>> THEN 0 ELSE NTz(r))

\* (-1)^neg * q * 2^e for q # 0 of at most 53 bits with tz trailing zero
\* bits; bits of q below 2^MinExp are rounded away.
PackAt(neg, q, e, tz) ==
  IF NBitLen(q) + e > 1024 THEN Inf(neg)
  ELSE IF e + tz < MinExp THEN Underflow(neg, NRoundShr(q, MinExp - e))
  ELSE [k |-> "fin", neg |-> neg, m |-> NShr(q, tz), e |-> e + tz]

\* (-1)^neg * q * 2^e for q of at most 53 bits.
Pack(neg, q, e) == IF q = <<>> THEN Zero(neg) ELSE PackAt(neg, q, e, NTz(q))

\* M # 0 without its s low bits, rounded.
RoundBy(neg, M, E, s) ==
  IF s > 0 THEN Pack(neg, NRoundShr(M, s), E + s) ELSE Pack(neg, M, E)

\* M # 0, with s bits more than the 53 a significand has: as many bits are
\* dropped, or all those below 2^MinExp if they are more.
RoundAt(neg, M, E, s) ==
  RoundBy(neg, M, E, IF s > MinExp - E THEN s ELSE MinExp - E)

\* The f64 nearest to (-1)^neg * M * 2^E (M a natural number, ties to even).
Round(neg, M, E) ==
  IF M = <<>> THEN Zero(neg) ELSE RoundAt(neg, M, E, NBitLen(M) - 53)

\* The f64 n * 2^e, for an integer n, |n| < 2^31.
Dyadic(n, e) == Round(n < 0, NFromInt(Abs(n)), e)

FNeg(a) == IF IsNaN(a) THEN a ELSE [a EXCEPT !.neg = ~a.neg]
FAbs(a) == IF IsNaN(a) THEN a ELSE [a EXCEPT !.neg = FALSE]

\* a * b when one of them is NaN, infinite or zero.
FMulSpecial(a, b) ==
  IF IsNaN(a) \/ IsNaN(b) THEN NaN
  ELSE IF IsInf(a) \/ IsInf(b)
       THEN (IF IsZero(a) \/ IsZero(b) THEN NaN ELSE Inf(a.neg # b.neg))
  ELSE Zero(a.neg # b.neg)

FMul(a, b) ==
  IF IsNumber(a) /\ IsNumber(b)
  THEN Round(a.neg # b.neg, NMul(a.m, b.m), a.e + b.e)
  ELSE FMulSpecial(a, b)

\* a + b when one of them is NaN, infinite or zero.
FAddSpecial(a, b) ==
  IF IsNaN(a) \/ IsNaN(b) THEN NaN
  ELSE IF IsInf(a) THEN (IF IsInf(b) /\ a.neg # b.neg THEN NaN ELSE a)
  ELSE IF IsInf(b) THEN b
  ELSE IF IsZero(a) /\ IsZero(b) THEN Zero(a.neg /\ b.neg)
  ELSE IF IsZero(a) THEN b
  ELSE a

\* (-1)^an * A * 2^e + (-1)^bn * B * 2^e, where c compares A with B: the
\* sum or the difference of the magnitudes under the sign of the larger;
\* +0 when they cancel.
FAddOrdered(an, A, bn, B, e, c) ==
  IF c = 0 /\ an # bn THEN Zero(FALSE)
  ELSE Round(IF an = bn \/ c > 0 THEN an ELSE bn,
             IF an = bn THEN NAdd(A, B)
             ELSE NSub(IF c > 0 THEN A ELSE B, IF c > 0 THEN B ELSE A),
             e)

FAddAligned(an, A, bn, B, e) == FAddOrdered(an, A, bn, B, e, NCmp(A, B))

\* a + b at the smaller exponent e of the two.
FAddAt(a, b, e) ==
  FAddAligned(a.neg, NShl(a.m, a.e - e), b.neg, NShl(b.m, b.e - e), e)

FAdd(a, b) ==
  IF IsNumber(a) /\ IsNumber(b)
  THEN FAddAt(a, b, IF a.e < b.e THEN a.e ELSE b.e)
  ELSE FAddSpecial(a, b)

FSub(a, b) == FAdd(a, FNeg(b))

\* a / b when one of them is NaN, infinite or zero.
FDivSpecial(a, b) ==
  IF IsNaN(a) \/ IsNaN(b) THEN NaN
  ELSE IF IsInf(a) THEN (IF IsInf(b) THEN NaN ELSE Inf(a.neg # b.neg))
  ELSE IF IsInf(b) THEN Zero(a.neg # b.neg)
  ELSE IF IsZero(b) THEN (IF IsZero(a) THEN NaN ELSE Inf(a.neg # b.neg))
  ELSE Zero(a.neg # b.neg)

\* The quotient qr.q * 2^(e + 1) when the division is exact, and else with
\* one more bit, set, that says that it is not.
FDivQuot(neg, qr, e) ==
  IF qr.r = <<>> THEN Round(neg, NNorm(qr.q), e + 1)
  ELSE Round(neg, NAddC(NShl(NNorm(qr.q), 1), <<>>, 1), e)

\* a / b for significands of la and lb bits: the divisor is shifted to
\* whole limbs (ld bits), the dividend to one bit less.
FDivBits(a, b, la, lb) ==
  LET ld == LIMB_BITS * ((IF lb > la THEN lb - 1 ELSE la) \div LIMB_BITS + 1)
      sa == ld - 1 - la
      sb == ld - lb
  IN  FDivQuot(a.neg # b.neg,
               NDivLimbs(NShl(a.m, sa), NShl(b.m, sb), 4),
               a.e - sa - b.e + sb - 4 * LIMB_BITS - 1)

FDiv(a, b) ==
  IF IsNumber(a) /\ IsNumber(b)
  THEN FDivBits(a, b, NBitLen(a.m), NBitLen(b.m))
  ELSE FDivSpecial(a, b)

\* The integer below a negative (below = TRUE) or positive fraction whose
\* integer part has magnitude q.
FloorOf(below, q) == Round(below, IF below THEN NAdd(q, <<1>>) ELSE q, 0)

\* f64::floor.
floor(a) ==
  IF ~IsFinite(a) \/ IsZero(a) \/ a.e >= 0 THEN a
  ELSE FloorOf(a.neg, NShr(a.m, -a.e))

\* `a as i32`: truncation toward zero, saturating, NaN to 0.
f64_as_i32(a) ==
  IF IsNaN(a) THEN 0
  ELSE IF IsInf(a) THEN (IF a.neg THEN I32_MIN ELSE I32_MAX)
  ELSE IF IsZero(a) THEN 0
  ELSE IF NBitLen(a.m) + a.e > 31 THEN (IF a.neg THEN I32_MIN ELSE I32_MAX)
  ELSE LET q == IF a.e >= 0 THEN NShl(a.m, a.e) ELSE NShr(a.m, -a.e)
       IN  IF a.neg THEN -NToInt(q) ELSE NToInt(q)

\* `n as f64` for an i32 n: exact.
i32_as_f64(n) ==
  IF n = 0 THEN Zero(FALSE)
  ELSE IF n = I32_MIN THEN [k |-> "fin", neg |-> TRUE, m |-> <<1>>, e |-> 31]
  ELSE Pack(n < 0, NFromInt(Abs(n)), 0)

\* The comparisons of f64 (==, <, <=): false when an operand is NaN.
IsBelowZero(d) == d.neg /\ (IsNumber(d) \/ IsInf(d))
FEq(a, b) == ~IsNaN(a) /\ ~IsNaN(b) /\ (a = b \/ (IsZero(a) /\ IsZero(b)))
FLt(a, b) == ~IsNaN(a) /\ ~IsNaN(b) /\ a # b /\ IsBelowZero(FSub(a, b))
FLe(a, b) == FLt(a, b) \/ FEq(a, b)

(***************************************************************************)
(* PerlinNoise2D.  A call returns a record whose field panic says that     *)
(* the call aborted (an arithmetic overflow under overflow checks); ret    *)
(* is the value returned otherwise.                                        *)
(***************************************************************************)
\* n = (n << 13) ^ n
noise_shift(n) == xor_i32(shl_i32(n, 13), n)

\* n * (n * n * 15731 + 789221) + 1376312589
noise_poly(n, checks) ==
  add_i32(mul_i32(n,
                  add_i32(mul_i32(mul_i32(n, n, checks), I(15731), checks),
                          I(789221), checks),
                  checks),
          I(1376312589), checks)

\* 1.0 - (t as f64) * 0.931322574615478515625e-9; the literal is 2^-30.
noise_value(t) ==
  [panic |-> t.panic,
   t |-> t.v,
   ret |-> IF t.panic THEN NaN
           ELSE FSub(Lit(1, 0), FMul(i32_as_f64(t.v), Lit(1, -30)))]

\* noise without its `& 0x7fffffff`.
noise_unmasked(x, y, checks) ==
  noise_value(
    noise_poly(
      noise_shift(add_i32(I(x), mul_i32(I(y), I(57), checks), checks)),
      checks))

\* fn noise(&self, x: i32, y: i32) -> f64.  t is the masked integer.
noise(x, y, checks) ==
  noise_value(
    and_i32(
      noise_poly(
        noise_shift(add_i32(I(x), mul_i32(I(y), I(57), checks), checks)),
        checks),
      I(I32_MAX)))

\* The factor of interpolate, 3.0 * a_sqr - 2.0 * (a_sqr * a), from a_sqr
\* and the product a_cub = a_sqr * a.  An operation on a NaN gives NaN.
fac_cub(a_sqr, a_cub) ==
  IF IsNaN(a_cub) THEN NaN
  ELSE FSub(FMul(Lit(3, 0), a_sqr), FMul(Lit(1, 1), a_cub))

fac_sqr(a, a_sqr) ==
  IF IsNaN(a_sqr) THEN NaN ELSE fac_cub(a_sqr, FMul(a_sqr, a))

\* fac1 for neg_a (and neg_a_sqr = neg_a * neg_a), fac2 for a (and a_sqr).
fac(a) == IF IsNaN(a) THEN NaN ELSE fac_sqr(a, FMul(a, a))

\* x * fac1 + y * fac2
interpolate_fac(x, y, fac1, fac2) ==
  IF IsNaN(fac1) \/ IsNaN(fac2) THEN NaN
  ELSE FAdd(FMul(x, fac1), FMul(y, fac2))

\* fn interpolate(&self, x: f64, y: f64, a: f64) -> f64.
interpolate(x, y, a) ==
  IF IsNaN(x) \/ IsNaN(y) \/ IsNaN(a) THEN NaN
  ELSE interpolate_fac(x, y, fac(FSub(Lit(1, 0), a)), fac(a))

\* x_int + d as the code forms it (x_int - 1, x_int + 1, x_int + 2; an
\* offset of 0 is x_int itself).
Offset(v, d, checks) ==
  IF d = 0 THEN I(v)
  ELSE IF d < 0 THEN sub_i32(I(v), I(-d), checks)
  ELSE add_i32(I(v), I(d), checks)

\* The hash at the lattice point (px, py) with value r.
hashed(px, py, r) ==
  [panic |-> px.panic \/ py.panic \/ r.panic,
   ret |-> r.ret,
   at |-> <<px.v, py.v>>]

noise_to(px, py, checks) == hashed(px, py, noise(px.v, py.v, checks))

\* self.noise(x_int + dx, y_int + dy).
noise_at(x_int, dx, y_int, dy, checks) ==
  noise_to(Offset(x_int, dx, checks), Offset(y_int, dy, checks), checks)

\* The sixteen hash evaluations of get_value, in the order of the code:
\* n01 n02 n03 n04 n05 n06 n07 n08 n09 n12 n14 n16 n23 n24 n28 n34.
lattice(x_int, y_int, checks) ==
  <<noise_at(x_int, -1, y_int, -1, checks),
    noise_at(x_int, 1, y_int, -1, checks),
    noise_at(x_int, -1, y_int, 1, checks),
    noise_at(x_int, 1, y_int, 1, checks),
    noise_at(x_int, -1, y_int, 0, checks),
    noise_at(x_int, 1, y_int, 0, checks),
    noise_at(x_int, 0, y_int, -1, checks),
    noise_at(x_int, 0, y_int, 1, checks),
    noise_at(x_int, 0, y_int, 0, checks),
    noise_at(x_int, 2, y_int, -1, checks),
    noise_at(x_int, 2, y_int, 1, checks),
    noise_at(x_int, 2, y_int, 0, checks),
    noise_at(x_int, -1, y_int, 2, checks),
    noise_at(x_int, 1, y_int, 2, checks),
    noise_at(x_int, 0, y_int, 2, checks),
    noise_at(x_int, 2, y_int, 2, checks)>>

\* a + b + c + d, left to right: ab = a + b, abc = ab + c.  An operation
\* on a NaN gives NaN.
Sum2(abc, d) == IF IsNaN(abc) THEN NaN ELSE FAdd(abc, d)
Sum3(ab, c, d) == IF IsNaN(ab) THEN NaN ELSE Sum2(FAdd(ab, c), d)
Sum4(a, b, c, d) == Sum3(FAdd(a, b), c, d)

\* 0.0625 * sa + 0.125 * sb + 0.25 * (c)
weighted_sums(sa, sb, c) ==
  IF IsNaN(sa) \/ IsNaN(sb) THEN NaN
  ELSE FAdd(FAdd(FMul(Lit(1, -4), sa), FMul(Lit(1, -3), sb)),
            FMul(Lit(1, -2), c))

\* One corner: 0.0625 * (a1+a2+a3+a4) + 0.125 * (b1+b2+b3+b4) + 0.25 * (c).
weighted(a1, a2, a3, a4, b1, b2, b3, b4, c) ==
  weighted_sums(Sum4(a1, a2, a3, a4), Sum4(b1, b2, b3, b4), c)

\* corner_values with x1y0 and x0y1 transposed.
corner_values_transposed(n) ==
  LET n01 == n[1]    n02 == n[2]    n03 == n[3]    n04 == n[4]
      n05 == n[5]    n06 == n[6]    n07 == n[7]    n08 == n[8]
      n09 == n[9]    n12 == n[10]   n14 == n[11]   n16 == n[12]
      n23 == n[13]   n24 == n[14]   n28 == n[15]   n34 == n[16]
  IN  <<weighted(n01, n02, n03, n04, n05, n06, n07, n08, n09),
        weighted(n05, n06, n23, n24, n03, n04, n09, n28, n08),
        weighted(n07, n12, n08, n14, n09, n16, n02, n04, n06),
        weighted(n09, n16, n28, n34, n08, n14, n06, n24, n04)>>

\* The four corners <<x0y0, x1y0, x0y1, x1y1>> from the sixteen values
\* n = <<n01, n02, n03, n04, n05, n06, n07, n08, n09,
\*       n12, n14, n16, n23, n24, n28, n34>>.
corner_values(n) ==
  LET n01 == n[1]    n02 == n[2]    n03 == n[3]    n04 == n[4]
      n05 == n[5]    n06 == n[6]    n07 == n[7]    n08 == n[8]
      n09 == n[9]    n12 == n[10]   n14 == n[11]   n16 == n[12]
      n23 == n[13]   n24 == n[14]   n28 == n[15]   n34 == n[16]
  IN  <<weighted(n01, n02, n03, n04, n05, n06, n07, n08, n09),
        weighted(n07, n12, n08, n14, n09, n16, n02, n04, n06),
        weighted(n05, n06, n23, n24, n03, n04, n09, n28, n08),
        weighted(n09, n16, n28, n34, n08, n14, n06, n24, n04)>>

\* The three interpolations of get_value: v1 in x direction (y), v2 in x
\* direction (y+1), fin in y direction, from the corners c.
get_value_fin(x_int, y_int, x_frac, y_frac, at, c) ==
  [panic |-> FALSE, x_int |-> x_int, y_int |-> y_int,
   x_frac |-> x_frac, y_frac |-> y_frac, hashed |-> at, corners |-> c,
   ret |-> interpolate(interpolate(c[1], c[2], x_frac),
                       interpolate(c[3], c[4], x_frac),
                       y_frac)]

\* get_value from the sixteen hash evaluations `all`.
get_value_from(x_int, y_int, x_frac, y_frac, all) ==
  IF \E i \in 1..16 : all[i].panic
  THEN [panic |-> TRUE, x_int |-> x_int, y_int |-> y_int,
        x_frac |-> x_frac, y_frac |-> y_frac, hashed |-> <<>>,
        corners |-> <<>>, ret |-> NaN]
  ELSE get_value_fin(x_int, y_int, x_frac, y_frac,
                     [i \in 1..16 |-> all[i].at],
                     corner_values([i \in 1..16 |-> all[i].ret]))

get_value_at(x_int, y_int, x_frac, y_frac, checks) ==
  get_value_from(x_int, y_int, x_frac, y_frac, lattice(x_int, y_int, checks))

\* fn get_value(&self, x: f64, y: f64) -> f64.  Besides ret, the record
\* holds the integer and fractional parts, the lattice points hashed, in
\* order, and the four corner values.
get_value(x, y, checks) ==
  get_value_at(f64_as_i32(x), f64_as_i32(y),
               FSub(x, floor(x)), FSub(y, floor(y)), checks)

\* The struct: its eight fields.
new(octaves, amplitude, frequency, persistence, lacunarity, scale, bias, seed) ==
  [octaves |-> octaves, amplitude |-> amplitude, frequency |-> frequency,
   persistence |-> persistence, lacunarity |-> lacunarity, scale |-> scale,
   bias |-> bias, seed |-> seed]

get_octaves(self) == self.octaves
get_amplitude(self) == self.amplitude
get_frequency(self) == self.frequency
get_persistence(self) == self.persistence
get_lacunarity(self) == self.lacunarity
get_scale(self) == self.scale
get_bias(self) == self.bias
get_seed(self) == self.seed

set_octaves(self, octaves) == [self EXCEPT !.octaves = octaves]
set_amplitude(self, amplitude) == [self EXCEPT !.amplitude = amplitude]
set_frequency(self, frequency) == [self EXCEPT !.frequency = frequency]
set_persistence(self, persistence) == [self EXCEPT !.persistence = persistence]
set_lacunarity(self, lacunarity) == [self EXCEPT !.lacunarity = lacunarity]
\* set_scale refusing a scale with a zero component.
set_scale_validated(self, scale) ==
  IF IsZero(scale[1]) \/ IsZero(scale[2]) THEN self
  ELSE [self EXCEPT !.scale = scale]

set_scale(self, scale) == [self EXCEPT !.scale = scale]
set_bias(self, bias) == [self EXCEPT !.bias = bias]
set_seed(self, seed) == [self EXCEPT !.seed = seed]

\* One sampler evaluation: self.get_value(a1, a2), to be weighted by amp.
sample_of(a1, a2, amp, gv) ==
  [x |-> a1, y |-> a2, amp |-> amp, value |-> gv.ret, panic |-> gv.panic]

sample(a1, a2, amp, checks) == sample_of(a1, a2, amp, get_value(a1, a2, checks))

\* t += s * amp; amp *= self.persistence; freq *= self.lacunarity.
total_add(self, st, s) ==
  IF s.panic
  THEN [st EXCEPT !.panic = TRUE, !.t = NaN, !.samples = @ \o <<s>>]
  ELSE [panic |-> FALSE,
        t |-> FAdd(st.t, FMul(s.value, st.amp)),
        amp |-> FMul(st.amp, self.persistence),
        freq |-> FMul(st.freq, self.lacunarity),
        samples |-> st.samples \o <<s>>]

\* total_body sampling at (x * freq + seed, y * freq + seed), untransposed.
total_body_untransposed(self, x, y, st, checks) ==
  total_add(self, st,
            sample(FAdd(FMul(x, st.freq), i32_as_f64(self.seed)),
                   FAdd(FMul(y, st.freq), i32_as_f64(self.seed)),
                   st.amp, checks))

\* The body of the loop of fn total on the loop state st = [t, amp, freq],
\* which also carries panic (the call aborted) and samples: per sampler
\* evaluation so far, its two arguments, its weight and its value.
total_body(self, x, y, st, checks) ==
  total_add(self, st,
            sample(FAdd(FMul(y, st.freq), i32_as_f64(self.seed)),
                   FAdd(FMul(x, st.freq), i32_as_f64(self.seed)),
                   st.amp, checks))

\* The loop over the inclusive range 0..=self.octaves.
RECURSIVE total_loop_inclusive(_, _, _, _, _, _)
total_loop_inclusive(self, x, y, i, st, checks) ==
  IF i > self.octaves \/ st.panic THEN st
  ELSE total_loop_inclusive(self, x, y, i + 1,
                            total_body(self, x, y, st, checks), checks)

\* for _ in 0..self.octaves: iteration i and those after it.
RECURSIVE total_loop(_, _, _, _, _, _)
total_loop(self, x, y, i, st, checks) ==
  IF i >= self.octaves \/ st.panic THEN st
  ELSE total_loop(self, x, y, i + 1, total_body(self, x, y, st, checks), checks)

total_ret(end) == [panic |-> end.panic, ret |-> end.t, samples |-> end.samples]

\* fn total(&self, x: f64, y: f64) -> f64.
total(self, x, y, checks) ==
  total_ret(total_loop(self, x, y, 0,
                       [panic |-> FALSE, t |-> Zero(FALSE), amp |-> Lit(1, 0),
                        freq |-> self.frequency, samples |-> <<>>],
                       checks))

\* self.bias + self.amplitude * (the total tt).
get_noise_of(self, tt) ==
  [panic |-> tt.panic,
   ret |-> IF tt.panic THEN NaN
           ELSE FAdd(self.bias, FMul(self.amplitude, tt.ret)),
   samples |-> tt.samples]

\* pub fn get_noise(&self, x: f64, y: f64) -> f64.
get_noise(self, x, y, checks) ==
  get_noise_of(self,
               total(self, FDiv(x, self.scale[1]), FDiv(y, self.scale[2]),
                     checks))

\* The object after a get_noise taking &mut self whose fn total advances
\* self.frequency in place of its local freq.
get_noise_leaves_advanced(self, x, y, checks) ==
  [self EXCEPT !.frequency =
     total_loop(self, FDiv(x, self.scale[1]), FDiv(y, self.scale[2]), 0,
                [panic |-> FALSE, t |-> Zero(FALSE), amp |-> Lit(1, 0),
                 freq |-> self.frequency, samples |-> <<>>],
                checks).freq]

\* The object after get_noise(&self, x, y): get_noise and the functions it
\* calls borrow self shared, the fields are plain values and the locals t,
\* amp and freq of fn total are dropped, so nothing is written.
get_noise_leaves(self, x, y, checks) == self

(***************************************************************************)
(* The state machine.  A specification draws the inputs of a call (and    *)
(* the build profile) in its initial state and then makes the call.       *)
(***************************************************************************)
ObjIds == {1, 2}

F(n) == i32_as_f64(n)

\* The object of the crate's example, with one octave.
Example ==
  new(1, F(1), F(1), Dyadic(1, -1), F(2), <<F(1), F(1)>>, Zero(FALSE), 101)

NoCall == [panic |-> FALSE]

After(r) == IF r.panic THEN "aborted" ELSE "done"

(***************************************************************************)
(* SpecHash: the lattice hash on pairs of i32 coordinates.                 *)
(***************************************************************************)
HashRange == 4

HashCoords ==
  (-HashRange..HashRange) \union {I32_MAX, I32_MIN, 46341, -1000003}

InitHash ==
  /\ overflow_checks \in BOOLEAN
  /\ obj = [o \in ObjIds |-> Example]
  /\ shadow = obj
  /\ arg \in [x : HashCoords, y : HashCoords]
  /\ res = NoCall
  /\ log = <<>>
  /\ ops = 0
  /\ pc = "ready"

NoiseCall ==
  /\ pc = "ready"
  /\ res' = noise(arg.x, arg.y, overflow_checks)
  /\ pc' = After(res')
  /\ UNCHANGED <<overflow_checks, obj, shadow, arg, log, ops>>

SpecHash == InitHash /\ [][NoiseCall]_vars

\* The limbs of an i32 taken modulo 2^32, and back.
NOfI32(a) ==
  IF a >= 0 THEN NFromInt(a)
  ELSE NAdd(NFromInt(a + I32_MAX + 1), NShl(<<1>>, 31))

NMod32(a) == NSub(a, NShl(NShr(a, 32), 32))

I32OfN(a) ==
  IF NLimb(a, 3) >= 2
  THEN (NLimb(a, 3) - 4) * LIMB * LIMB + NLimb(a, 2) * LIMB + NLimb(a, 1)
  ELSE NToInt(a)

\* The hash computed exactly on natural numbers, every add, multiply and
\* shift reduced modulo 2^32: the shift-xor step, the polynomial, the mask.
WrapShift(n0) ==
  NOfI32(FromBytes(XorBytes(Bytes(I32OfN(NMod32(NShl(n0, 13)))),
                            Bytes(I32OfN(n0)))))

WrapPoly(n) ==
  NMod32(NAdd(NMod32(NMul(n,
                          NMod32(NAdd(NMod32(NMul(NMod32(NMul(n, n)),
                                                  NFromInt(15731))),
                                      NFromInt(789221))))),
              NFromInt(1376312589)))

WrapMask(s) == I32OfN(NSub(s, NShl(NShr(s, 31), 31)))

WrapReference(x, y) ==
  WrapMask(WrapPoly(WrapShift(
    NMod32(NAdd(NOfI32(x), NMul(NOfI32(y), NFromInt(57)))))))

\* C1: for every pair of i32 coordinates, overflowing intermediates
\* included, noise completes without aborting and its masked integer t is
\* the value with every add, multiply and shift reduced modulo 2^32.
C1_HashWrapsAndCompletes ==
  pc # "ready" => /\ ~res.panic
                  /\ res.t = WrapReference(arg.x, arg.y)

\* C1, where it does hold: a build without overflow checks wraps.
C1_HashWrapsInRelease ==
  (pc # "ready" /\ ~overflow_checks) =>
    /\ ~res.panic
    /\ res.t = WrapReference(arg.x, arg.y)

C1_Witness ==
  /\ pc = "done"
  /\ ~overflow_checks
  /\ MulOverflows(arg.y, 57)
  /\ res.t = WrapReference(arg.x, arg.y)

\* C2: whenever noise returns, its masked integer t is in 0..2^31 - 1 and the
\* value returned, 1 - t / 2^30, is in [-1, 1].
C2_HashRange ==
  pc = "done" =>
    /\ 0 <= res.t /\ res.t <= I32_MAX
    /\ FLe(F(-1), res.ret) /\ FLe(res.ret, F(1))

C2_Witness == pc = "done" /\ res.t > Pow2(30) /\ FLt(res.ret, Zero(FALSE))

(***************************************************************************)
(* SpecValue: the sampler get_value on pairs of f64 coordinates.          *)
(***************************************************************************)
ValueRange == 3

\* Halves around 0, a large negative coordinate and an infinite one.
ValueCoords ==
  {Dyadic(n, -1) : n \in -ValueRange..ValueRange}
    \union {Dyadic(-1000003, -2), Inf(FALSE)}

InitValue ==
  /\ overflow_checks \in BOOLEAN
  /\ obj = [o \in ObjIds |-> Example]
  /\ shadow = obj
  /\ arg \in [x : ValueCoords, y : ValueCoords]
  /\ res = NoCall
  /\ log = <<>>
  /\ ops = 0
  /\ pc = "ready"

ValueCall ==
  /\ pc = "ready"
  /\ res' = get_value(arg.x, arg.y, overflow_checks)
  /\ pc' = After(res')
  /\ UNCHANGED <<overflow_checks, obj, shadow, arg, log, ops>>

SpecValue == InitValue /\ [][ValueCall]_vars

\* The lattice hash h at (cx + dx, cy + dy), the coordinates wrapping.
H(cx, dx, cy, dy) ==
  noise(wrapping_add(cx, dx), wrapping_add(cy, dy), FALSE).ret

\* The 3x3 smoothing kernel centred on the lattice point (cx, cy).
Kernel(cx, cy) ==
  FAdd(FAdd(FMul(Lit(1, -2), H(cx, 0, cy, 0)),
            FMul(Lit(1, -3),
                 Sum4(H(cx, -1, cy, 0), H(cx, 1, cy, 0),
                      H(cx, 0, cy, -1), H(cx, 0, cy, 1)))),
       FMul(Lit(1, -4),
            Sum4(H(cx, -1, cy, -1), H(cx, 1, cy, -1),
                 H(cx, -1, cy, 1), H(cx, 1, cy, 1))))

\* The kernel recentred on the corner (dx, dy) of the cell of the call.
KernelAt(dx, dy) ==
  Kernel(wrapping_add(res.x_int, dx), wrapping_add(res.y_int, dy))

\* C9: when get_value returns, the corners x0y0, x1y0, x0y1, x1y1 are the
\* 3x3 kernel (0.25 centre, 0.125 edge-adjacent, 0.0625 corner-adjacent)
\* recentred on (x_int + dx, y_int + dy) for (dx, dy) = (0,0), (1,0), (0,1),
\* (1,1), and the lattice points hashed are exactly the 16 with offsets in
\* {-1,0,1,2} x {-1,0,1,2}.
C9_CornersAreRecentredKernels ==
  pc = "done" =>
    /\ res.corners =
         <<KernelAt(0, 0), KernelAt(1, 0), KernelAt(0, 1), KernelAt(1, 1)>>
    /\ Len(res.hashed) = 16
    /\ {res.hashed[i] : i \in 1..16} =
         {<<wrapping_add(res.x_int, dx), wrapping_add(res.y_int, dy)>> :
            dx \in -1..2, dy \in -1..2}

C9_Witness ==
  /\ pc = "done"
  /\ res.x_int < 0
  /\ res.corners[2] # res.corners[3]
  /\ res.corners[2] = KernelAt(1, 0)
  /\ Cardinality({res.hashed[i] : i \in 1..16}) = 16

(***************************************************************************)
(* SpecSmooth: get_noise of the example object at a lattice boundary of   *)
(* the sampler and a step e beside it.                                     *)
(***************************************************************************)
SmoothRange == 4

\* x such that the sampler coordinate x * frequency + seed is the integer k.
SmoothXs == {F(k - Example.seed) : k \in -SmoothRange..SmoothRange}
SmoothYs == {Dyadic(1, -1), Dyadic(-413, -2)}
SmoothSteps == {Lit(1, -6), FNeg(Lit(1, -6))}

\* What a continuous sampler moves by, at most, over a step: the corners
\* differ by at most 2 and 3a^2 - 2a^3 has slope at most 1.5.
SmoothBound == Lit(1, -4)

InitSmooth ==
  /\ overflow_checks \in BOOLEAN
  /\ obj = [o \in ObjIds |-> Example]
  /\ shadow = obj
  /\ arg \in [x : SmoothXs, y : SmoothYs, e : SmoothSteps]
  /\ res = NoCall
  /\ log = <<>>
  /\ ops = 0
  /\ pc = "ready"

smooth_pair(here, near) ==
  [panic |-> here.panic \/ near.panic, here |-> here.ret, near |-> near.ret]

SmoothCall ==
  /\ pc = "ready"
  /\ res' = smooth_pair(get_noise(obj[1], arg.x, arg.y, overflow_checks),
                        get_noise(obj[1], FAdd(arg.x, arg.e), arg.y,
                                  overflow_checks))
  /\ pc' = After(res')
  /\ UNCHANGED <<overflow_checks, obj, shadow, arg, log, ops>>

SpecSmooth == InitSmooth /\ [][SmoothCall]_vars

\* The sampler coordinate that x of get_noise becomes.
SamplerCoord(self, x) ==
  FAdd(FMul(FDiv(x, self.scale[1]), self.frequency), F(self.seed))

\* C5: for octaves=1, persistence=0.5, lacunarity=2.0, amplitude=1.0,
\* scale=(1,1), bias=0, seed=101, get_noise has no jump at a lattice
\* boundary of the sampler, positive or negative: a step e of 1/64 to
\* either side of it changes the value by at most 4 * e.
C5_NoJumpAtLatticeBoundaries ==
  pc = "done" => FLe(FAbs(FSub(res.near, res.here)), SmoothBound)

\* C5, where it does hold: the steps that stay at positive sampler
\* coordinates.
C5_NoJumpAtPositiveCoordinates ==
  (/\ pc = "done"
   /\ FLt(Zero(FALSE), SamplerCoord(obj[1], FAdd(arg.x, arg.e)))
   /\ FLt(Zero(FALSE), SamplerCoord(obj[1], arg.x)))
    => FLe(FAbs(FSub(res.near, res.here)), SmoothBound)

C5_Witness ==
  /\ pc = "done"
  /\ FLt(Zero(FALSE), SamplerCoord(obj[1], FAdd(arg.x, arg.e)))
  /\ FLt(Zero(FALSE), SamplerCoord(obj[1], arg.x))
  /\ arg.e.neg
  /\ res.near # res.here
  /\ FLe(FAbs(FSub(res.near, res.here)), SmoothBound)

(***************************************************************************)
(* SpecSample: one get_noise call on an object built by new.               *)
(***************************************************************************)
MaxOctaves == 2

Configs ==
  {new(octaves, amplitude, F(1), persistence, F(2), scale, bias, seed) :
     octaves \in -1..MaxOctaves,
     amplitude \in {F(1), Inf(FALSE)},
     persistence \in {F(1), Dyadic(1, -1)},
     scale \in {<<F(2), F(2)>>, <<Zero(FALSE), F(1)>>},
     bias \in {Zero(FALSE), Dyadic(3, -1)},
     seed \in {0, 101}}

SamplePoints == {[x |-> F(-50), y |-> F(-8)], [x |-> Dyadic(13, -2), y |-> Dyadic(15, -1)]}

InitSample ==
  /\ overflow_checks \in BOOLEAN
  /\ \E c \in Configs : obj = [o \in ObjIds |-> c]
  /\ shadow = obj
  /\ arg \in SamplePoints
  /\ res = NoCall
  /\ log = <<>>
  /\ ops = 0
  /\ pc = "ready"

SampleCall ==
  /\ pc = "ready"
  /\ res' = get_noise(obj[1], arg.x, arg.y, overflow_checks)
  /\ pc' = After(res')
  /\ UNCHANGED <<overflow_checks, obj, shadow, arg, log, ops>>

SpecSample == InitSample /\ [][SampleCall]_vars

\* C3 as stated: with octaves <= 0 total evaluates no sample and get_noise
\* returns the bias, whatever the other fields hold.
C3_NoOctavesGivesBias ==
  (pc = "done" /\ obj[1].octaves <= 0) =>
    /\ res.samples = <<>>
    /\ FEq(res.ret, obj[1].bias)

\* C3, amended: with octaves <= 0 total evaluates no sample, and get_noise
\* returns the bias when the amplitude is finite (bias + amplitude * 0.0
\* is NaN for an infinite or NaN amplitude).
C3_NoOctavesGivesBiasForFiniteAmplitude ==
  (pc = "done" /\ obj[1].octaves <= 0) =>
    /\ res.samples = <<>>
    /\ IsFinite(obj[1].amplitude) => FEq(res.ret, obj[1].bias)
    /\ ~IsFinite(obj[1].amplitude) => IsNaN(res.ret)

C3_Witness ==
  /\ pc = "done"
  /\ obj[1].octaves < 0
  /\ IsFinite(obj[1].amplitude)
  /\ ~IsZero(obj[1].bias)
  /\ IsZero(obj[1].scale[1])
  /\ res.samples = <<>>
  /\ res.ret = obj[1].bias

ZeroScale(self) == IsZero(self.scale[1]) \/ IsZero(self.scale[2])

\* C4: with a zero scale component and octaves >= 1, get_noise does not
\* abort: it returns a NaN or an infinite value.
C4_ZeroScaleCompletes ==
  (pc # "ready" /\ ZeroScale(obj[1]) /\ obj[1].octaves >= 1) =>
    /\ ~res.panic
    /\ IsNaN(res.ret) \/ IsInf(res.ret)

\* C4, where it does hold: a build without overflow checks.
C4_ZeroScaleCompletesInRelease ==
  (/\ pc # "ready" /\ ~overflow_checks
   /\ ZeroScale(obj[1]) /\ obj[1].octaves >= 1) =>
    /\ ~res.panic
    /\ IsNaN(res.ret) \/ IsInf(res.ret)

\* C8: with bias = 0, a number returned by get_noise is at most |amplitude|
\* in absolute value.
C8_AmplitudeBoundsOutput ==
  (pc = "done" /\ IsZero(obj[1].bias) /\ ~IsNaN(res.ret)) =>
    FLe(FAbs(res.ret), FAbs(obj[1].amplitude))

\* freq_i and amp_i of the octave i (from 0), and the total of the first n
\* sampler values s weighted by them.
RECURSIVE FreqOf(_, _)
FreqOf(self, i) ==
  IF i = 0 THEN self.frequency ELSE FMul(FreqOf(self, i - 1), self.lacunarity)

RECURSIVE AmpOf(_, _)
AmpOf(self, i) ==
  IF i = 0 THEN Lit(1, 0) ELSE FMul(AmpOf(self, i - 1), self.persistence)

RECURSIVE TotalOf(_, _, _)
TotalOf(self, s, n) ==
  IF n = 0 THEN Zero(FALSE)
  ELSE FAdd(TotalOf(self, s, n - 1), FMul(s[n].value, AmpOf(self, n - 1)))

\* C10: for octaves = N >= 1, a get_noise that returns has evaluated the
\* sampler N times, the i-th time (i from 0) at the transposed point
\* (y' * freq_i + seed, x' * freq_i + seed) for x' = x / scale.0 and
\* y' = y / scale.1, weighted by amp_i, with freq_0 = frequency, amp_0 = 1,
\* freq_{i+1} = freq_i * lacunarity, amp_{i+1} = amp_i * persistence, and
\* the value returned is bias + amplitude * (the weighted total).
C10_OctaveLoop ==
  (pc = "done" /\ obj[1].octaves >= 1) =>
    /\ Len(res.samples) = obj[1].octaves
    /\ \A i \in 1..Len(res.samples) :
         /\ res.samples[i].x =
              FAdd(FMul(FDiv(arg.y, obj[1].scale[2]), FreqOf(obj[1], i - 1)),
                   F(obj[1].seed))
         /\ res.samples[i].y =
              FAdd(FMul(FDiv(arg.x, obj[1].scale[1]), FreqOf(obj[1], i - 1)),
                   F(obj[1].seed))
         /\ res.samples[i].amp = AmpOf(obj[1], i - 1)
         /\ res.samples[i].value =
              get_value(res.samples[i].x, res.samples[i].y, FALSE).ret
    /\ res.ret =
         FAdd(obj[1].bias,
              FMul(obj[1].amplitude,
                   TotalOf(obj[1], res.samples, Len(res.samples))))

C10_Witness ==
  /\ pc = "done"
  /\ obj[1].octaves = 2
  /\ Len(res.samples) = 2
  /\ res.samples[2].x # res.samples[2].y
  /\ res.samples[2].x # res.samples[1].x
  /\ res.samples[2].amp # res.samples[1].amp
  /\ IsNumber(res.ret)
  /\ ~IsZero(obj[1].bias)

(***************************************************************************)
(* Spec: two objects built by new, then calls of the setters and of        *)
(* get_noise on either, in any order.  A call that panics ends the         *)
(* program.                                                                *)
(***************************************************************************)
MaxOps == 3

\* The second object: the example with another bias.
Biased ==
  new(1, F(1), F(1), Dyadic(1, -1), F(2), <<F(1), F(1)>>, Dyadic(3, -1), 101)

\* The values passed to the setters, by field: no octave, a zero scale
\* component.
Other ==
  new(0, F(2), Dyadic(1, -1), F(1), F(3), <<Zero(FALSE), F(1)>>,
      Dyadic(3, -1), 0)

\* The points get_noise is called at.
Points ==
  {[x |-> Dyadic(13, -2), y |-> Dyadic(-15, -1)],
   [x |-> Dyadic(-3, -1), y |-> F(2)]}

Init ==
  /\ overflow_checks \in BOOLEAN
  /\ obj = [o \in ObjIds |-> IF o = 1 THEN Example ELSE Biased]
  /\ shadow = obj
  /\ arg = [x |-> Zero(FALSE), y |-> Zero(FALSE)]
  /\ res = NoCall
  /\ log = <<>>
  /\ ops = 0
  /\ pc = "ready"

SetOctaves(o) ==
  /\ pc = "ready" /\ ops < MaxOps
  /\ obj' = [obj EXCEPT ![o] = set_octaves(@, Other.octaves)]
  /\ shadow' = [shadow EXCEPT ![o].octaves = Other.octaves]
  /\ ops' = ops + 1
  /\ UNCHANGED <<overflow_checks, arg, res, log, pc>>

SetAmplitude(o) ==
  /\ pc = "ready" /\ ops < MaxOps
  /\ obj' = [obj EXCEPT ![o] = set_amplitude(@, Other.amplitude)]
  /\ shadow' = [shadow EXCEPT ![o].amplitude = Other.amplitude]
  /\ ops' = ops + 1
  /\ UNCHANGED <<overflow_checks, arg, res, log, pc>>

SetFrequency(o) ==
  /\ pc = "ready" /\ ops < MaxOps
  /\ obj' = [obj EXCEPT ![o] = set_frequency(@, Other.frequency)]
  /\ shadow' = [shadow EXCEPT ![o].frequency = Other.frequency]
  /\ ops' = ops + 1
  /\ UNCHANGED <<overflow_checks, arg, res, log, pc>>

SetPersistence(o) ==
  /\ pc = "ready" /\ ops < MaxOps
  /\ obj' = [obj EXCEPT ![o] = set_persistence(@, Other.persistence)]
  /\ shadow' = [shadow EXCEPT ![o].persistence = Other.persistence]
  /\ ops' = ops + 1
  /\ UNCHANGED <<overflow_checks, arg, res, log, pc>>

SetLacunarity(o) ==
  /\ pc = "ready" /\ ops < MaxOps
  /\ obj' = [obj EXCEPT ![o] = set_lacunarity(@, Other.lacunarity)]
  /\ shadow' = [shadow EXCEPT ![o].lacunarity = Other.lacunarity]
  /\ ops' = ops + 1
  /\ UNCHANGED <<overflow_checks, arg, res, log, pc>>

SetScale(o) ==
  /\ pc = "ready" /\ ops < MaxOps
  /\ obj' = [obj EXCEPT ![o] = set_scale(@, Other.scale)]
  /\ shadow' = [shadow EXCEPT ![o].scale = Other.scale]
  /\ ops' = ops + 1
  /\ UNCHANGED <<overflow_checks, arg, res, log, pc>>

SetBias(o) ==
  /\ pc = "ready" /\ ops < MaxOps
  /\ obj' = [obj EXCEPT ![o] = set_bias(@, Other.bias)]
  /\ shadow' = [shadow EXCEPT ![o].bias = Other.bias]
  /\ ops' = ops + 1
  /\ UNCHANGED <<overflow_checks, arg, res, log, pc>>

SetSeed(o) ==
  /\ pc = "ready" /\ ops < MaxOps
  /\ obj' = [obj EXCEPT ![o] = set_seed(@, Other.seed)]
  /\ shadow' = [shadow EXCEPT ![o].seed = Other.seed]
  /\ ops' = ops + 1
  /\ UNCHANGED <<overflow_checks, arg, res, log, pc>>

\* What a get_noise call at p on the object o with result r leaves in the
\* log: the fields of the object as the call found them, the values its
\* caller last passed to new and the setters, the input and the result.
Logged(o, p, r) ==
  [o |-> o, self |-> obj[o], set |-> shadow[o], x |-> p.x, y |-> p.y,
   panic |-> r.panic, ret |-> r.ret]

GetNoise(o, p) ==
  /\ pc = "ready" /\ ops < MaxOps
  /\ arg' = p
  /\ res' = get_noise(obj[o], p.x, p.y, overflow_checks)
  /\ obj' = [obj EXCEPT ![o] = get_noise_leaves(@, p.x, p.y, overflow_checks)]
  /\ log' = Append(log, Logged(o, p, res'))
  /\ pc' = IF res'.panic THEN "aborted" ELSE "ready"
  /\ ops' = ops + 1
  /\ UNCHANGED <<overflow_checks, shadow>>

Next ==
  \E o \in ObjIds :
    \/ SetOctaves(o)
    \/ SetAmplitude(o)
    \/ SetFrequency(o)
    \/ SetPersistence(o)
    \/ SetLacunarity(o)
    \/ SetScale(o)
    \/ SetBias(o)
    \/ SetSeed(o)
    \/ \E p \in Points : GetNoise(o, p)

Spec == Init /\ [][Next]_vars

\* C6: after new and any sequence of setter and get_noise calls, each of
\* the eight getters returns the value last passed to its field's setter,
\* or to new when the field was never set: a setter changes its own field
\* only, rejects and alters nothing, and get_noise changes no field.
C6_GettersReturnLastSet ==
  \A o \in ObjIds :
    /\ get_octaves(obj[o]) = shadow[o].octaves
    /\ get_amplitude(obj[o]) = shadow[o].amplitude
    /\ get_frequency(obj[o]) = shadow[o].frequency
    /\ get_persistence(obj[o]) = shadow[o].persistence
    /\ get_lacunarity(obj[o]) = shadow[o].lacunarity
    /\ get_scale(obj[o]) = shadow[o].scale
    /\ get_bias(obj[o]) = shadow[o].bias
    /\ get_seed(obj[o]) = shadow[o].seed

C6_Witness ==
  /\ ops = 3
  /\ Len(log) = 1 /\ log[1].o = 1
  /\ get_octaves(obj[1]) = Other.octaves
  /\ get_scale(obj[1]) = Other.scale
  /\ get_bias(obj[1]) = Example.bias
  /\ obj[2] = Biased

\* C7: get_noise is deterministic and history-independent.  Two calls with
\* the same (x, y) return the same result (or both abort) whenever the
\* objects they are made on hold equal values in their eight fields, and
\* whenever the callers of the two objects last passed equal values to new
\* and the setters: whatever setter and get_noise calls came before on
\* either object, and in particular for a second call on the same object.
C7_HistoryIndependent ==
  \A i, j \in 1..Len(log) :
    (/\ log[i].x = log[j].x /\ log[i].y = log[j].y
     /\ (log[i].self = log[j].self \/ log[i].set = log[j].set))
      => (log[i].panic = log[j].panic /\ log[i].ret = log[j].ret)

\* Object 1 after a setter call and object 2, never set, hold equal fields
\* and return the same number at the same point.
C7_Witness ==
  /\ ops = 3
  /\ Len(log) = 2
  /\ log[1].o # log[2].o
  /\ shadow[1] # Example
  /\ log[1].self = log[2].self /\ log[1].set = log[2].set
  /\ log[1].x = log[2].x /\ log[1].y = log[2].y
  /\ IsNumber(log[1].ret) /\ ~log[2].panic
  /\ log[1].ret = log[2].ret

====
